---- MODULE Spec2Model ----
(***************************************************************************)
(* The certified static-asset canister of src/static_backend: the          *)
(* recertification timer (lib.rs), the certification pass and request      *)
(* serving (asset.rs).  The canister's heap (HTTP_TREE, ASSET_ROUTER,      *)
(* LAST_CYCLES_FOR_TIMER, the armed timers, the suspended futures) and the *)
(* system state it touches (certified data, time, the management           *)
(* canister's view of the canister) are the variables.  Every action is    *)
(* one message execution: the canister runs one message at a time and a    *)
(* trap rolls back everything that message changed.                        *)
(*                                                                         *)
(* AssetRouter and HttpCertificationTree come from the crates              *)
(* ic-asset-certification / ic-http-certification; their operations are    *)
(* modelled at the places asset.rs calls them.                             *)
(***************************************************************************)
EXTENDS Integers, Sequences, FiniteSets, TLC

VARIABLES
    HTTP_TREE,              \* asset.rs:13  set of tree entries (path, response hash)
    ASSET_ROUTER,           \* asset.rs:14  [responses, fallback_responses]
    certified_data,         \* system state set by set_certified_data; <<>> = never set
    LAST_CYCLES_FOR_TIMER,  \* lib.rs:19
    timers,                 \* the interval timers armed (heap): the time left until each fires
    tasks,                  \* futures spawned by the timer callback, suspended at an await
    time,                   \* ic_cdk::api::time(), see TimePasses
    source,                 \* the management canister's view (status / history), a counter
    outcome,                \* how the most recently finished pass ended
    scheduler               \* "Uninitialized" until a pass has completed since init/upgrade

vars == <<HTTP_TREE, ASSET_ROUTER, certified_data, LAST_CYCLES_FOR_TIMER,
          timers, tasks, time, source, outcome, scheduler>>

heap == <<HTTP_TREE, ASSET_ROUTER, LAST_CYCLES_FOR_TIMER, timers, tasks>>

---------------------------------------------------------------------------
(* Bounds of the model *)

MaxInFlight == 2      \* passes suspended at an await at the same time
MaxSource == 1        \* values the metadata source runs through: 0..MaxSource
MaxTime == 5          \* timer intervals the clock runs through
MaxWork == 1          \* instructions a pass can take: 1..MaxWork
MaxNow == 2           \* first performance_counter reading: 1..MaxNow

ENABLE_TEMPLATING == TRUE

(* Time is counted in seconds and advances a timer interval at a time:     *)
(* what happens at the same time value happens within one second, two      *)
(* different time values are at least an interval apart.                   *)
UPDATE_INTERVAL_SECS == 120

(* the last value the clock shows *)
LastTime == MaxTime * UPDATE_INTERVAL_SECS

---------------------------------------------------------------------------
(* The embedded corpus: ASSETS_DIR.files(), the top-level files of         *)
(* src/assets in include_dir's (sorted) order.                             *)

ASSETS_DIR == <<"404.html", "app.js", "app.js.gz", "favicon.ico", "index.hbs", "style.css">>

FileExt(path) ==
    CASE path = "404.html" -> "html"
      [] path = "index.html" -> "html"
      [] path = "index.hbs" -> "hbs"
      [] path = "app.js" -> "js"
      [] path = "app.js.gz" -> "gz"
      [] path = "style.css" -> "css"
      [] OTHER -> "ico"

(* path + "." + postfix, the name certify_assets looks an encoded variant up by *)
EncodedPath(path, postfix) ==
    IF path = "app.js" /\ postfix = "gz" THEN "app.js.gz" ELSE "(none)"

(* file.contents(): the embedded bytes of a file, nothing filled in *)
Contents(file) == [file |-> file, fill |-> <<>>]

---------------------------------------------------------------------------
(* lib.rs *)

(* a counter that starts again with every message: the reading after the   *)
(* last await counts the last message only                                 *)
performance_counter_PerMessage(before, executed) == executed

(* performance_counter(1), the call context's instruction counter, which   *)
(* runs on across the awaits of a pass: the reading after the pass has     *)
(* executed some more instructions                                         *)
performance_counter(before, executed) == before + executed

(* timestamp(): the time formatted "%Y-%m-%d %H:%M:%S" *)
timestamp(t) == <<"%Y-%m-%d %H:%M:%S", t>>

(* serve_canister_info, after both awaits: the template with the fetched   *)
(* status, the fetched history, the formatted time and the last pass's     *)
(* cost filled in.                                                         *)
Render(file, response, info, now_time, last_cycles_cost) ==
    [file |-> file,
     fill |-> <<response, info, timestamp(now_time), last_cycles_cost>>]

---------------------------------------------------------------------------
(* asset.rs: the rule set of certify_all_assets *)

(* URL paths are sequences of segments: "/" is <<>>, "/index.html" is      *)
(* <<"index.html">>.  The router serves the asset named p at "/" + p.      *)
Root == <<>>

AssetUrl(path) == <<path>>

SecurityHeaders ==
    << <<"strict-transport-security", "max-age=31536000; includeSubDomains">>,
       <<"x-frame-options", "DENY">>,
       <<"x-content-type-options", "nosniff">>,
       <<"content-security-policy", "default-src 'self'; ...">>,
       <<"referrer-policy", "no-referrer">>,
       <<"permissions-policy", "accelerometer=(),...">>,
       <<"cross-origin-embedder-policy", "require-corp">>,
       <<"cross-origin-opener-policy", "same-origin">> >>

get_asset_headers(additional_headers) == SecurityHeaders \o additional_headers

IMMUTABLE_ASSET_CACHE_CONTROL == "public, max-age=31536000, immutable"

(* AssetEncoding::Brotli.default_config(), AssetEncoding::Gzip.default_config() *)
encodings == << <<"br", "br">>, <<"gzip", "gz">> >>

asset_configs ==
    << [kind |-> "File", path |-> "index.html", content_type |-> "text/html",
        headers |-> get_asset_headers(<< <<"cache-control", "public, no-cache, no-store">> >>),
        fallback_for |-> <<>>, aliased_by |-> <<Root>>, encodings |-> encodings],
       [kind |-> "File", path |-> "404.html", content_type |-> "text/html",
        headers |-> get_asset_headers(<< <<"cache-control", "public, no-cache, no-store">> >>),
        fallback_for |-> << [scope |-> Root, status_code |-> 404] >>,
        aliased_by |-> <<>>, encodings |-> encodings],
       [kind |-> "Pattern", path |-> "**/*.js", content_type |-> "text/javascript",
        headers |-> get_asset_headers(<< <<"cache-control", IMMUTABLE_ASSET_CACHE_CONTROL>> >>),
        fallback_for |-> <<>>, aliased_by |-> <<>>, encodings |-> encodings],
       [kind |-> "Pattern", path |-> "**/*.css", content_type |-> "text/css",
        headers |-> get_asset_headers(<< <<"cache-control", IMMUTABLE_ASSET_CACHE_CONTROL>> >>),
        fallback_for |-> <<>>, aliased_by |-> <<>>, encodings |-> encodings] >>

(* the template certified as it is, under index.html *)
AssetOf_RawTemplate(file, rendered) ==
    IF FileExt(file) = "hbs"
    THEN [path |-> "index.html", content |-> Contents(file)]
    ELSE [path |-> file, content |-> Contents(file)]

(* The assets vector built by the loop over ASSETS_DIR.files(): index.hbs  *)
(* becomes index.html with the rendered bytes, every other file keeps its  *)
(* path and embedded bytes.                                                *)
AssetOf(file, rendered) ==
    IF FileExt(file) = "hbs"
    THEN [path |-> "index.html",
          content |-> IF ENABLE_TEMPLATING THEN rendered ELSE Contents(file)]
    ELSE [path |-> file, content |-> Contents(file)]

Assets(rendered) == [i \in 1..Len(ASSETS_DIR) |-> AssetOf(ASSETS_DIR[i], rendered)]

---------------------------------------------------------------------------
(* AssetRouter::certify_assets, called at asset.rs:102 *)

(* A config matches an asset by its path (File) or by its glob (Pattern) *)
MatchesAsset(config, path) ==
    IF config.kind = "File"
    THEN config.path = path
    ELSE \/ config.path = "**/*.js" /\ FileExt(path) = "js"
         \/ config.path = "**/*.css" /\ FileExt(path) = "css"

(* index of the first config that matches, 0 if none does *)
ConfigFor(path) ==
    LET hits == {i \in 1..Len(asset_configs) : MatchesAsset(asset_configs[i], path)}
    IN  IF hits = {} THEN 0 ELSE CHOOSE i \in hits : \A j \in hits : i <= j

(* The response certified for an asset: status, headers, body.  encoding   *)
(* is "identity" or the encoding of a pre-encoded variant; cfg = 0 is an   *)
(* asset no rule matches, certified without any configured header.         *)
BuildResponse(content, encoding, cfg, status_code) ==
    [status_code |-> status_code,
     headers |-> (IF cfg = 0 THEN <<>>
                  ELSE << <<"content-type", asset_configs[cfg].content_type>> >>
                       \o asset_configs[cfg].headers)
                 \o (IF encoding = "identity" THEN <<>>
                     ELSE << <<"content-encoding", encoding>> >>),
     body |-> content]

(* the hash of a response, collision free *)
ResponseHash(response) == [sha256_of |-> response]

(* HttpCertificationTreeEntry: an exact or a wildcard path and the hash *)
TreeEntry(kind, url, response) ==
    [kind |-> kind, path |-> url, response_hash |-> ResponseHash(response)]

RequestKey(url, encoding) == [path |-> url, encoding |-> encoding]

Put(f, k, v) == [x \in (DOMAIN f) \cup {k} |-> IF x = k THEN v ELSE f[x]]

(* HttpCertificationTree::insert: the entry's tree path ends in the        *)
(* response hash, so a new response for a path is a new leaf beside the    *)
(* ones already there.                                                     *)
TreeInsert(tree, entry) == tree \cup {entry}

(* insert one certified response: the tree entry and the router's map *)
InsertResponse(st, url, encoding, response) ==
    LET entry == TreeEntry("exact", url, response)
    IN  [st EXCEPT !.tree = TreeInsert(@, entry),
                   !.responses = Put(@, RequestKey(url, encoding),
                                     [response |-> response, tree_entry |-> entry])]

InsertFallback(st, scope, encoding, response) ==
    LET entry == TreeEntry("wildcard", scope, response)
    IN  [st EXCEPT !.tree = TreeInsert(@, entry),
                   !.fallback_responses = Put(@, RequestKey(scope, encoding),
                                              [response |-> response, tree_entry |-> entry])]

RECURSIVE InsertFallbacks(_, _, _, _, _, _)
InsertFallbacks(st, fallbacks, k, content, encoding, cfg) ==
    IF k > Len(fallbacks) THEN st
    ELSE InsertFallbacks(
            InsertFallback(st, fallbacks[k].scope, encoding,
                           BuildResponse(content, encoding, cfg, fallbacks[k].status_code)),
            fallbacks, k + 1, content, encoding, cfg)

(* aliases registered once and not refreshed by later passes *)
RECURSIVE InsertAliases_IfAbsent(_, _, _, _, _)
InsertAliases_IfAbsent(st, aliases, k, encoding, response) ==
    IF k > Len(aliases) THEN st
    ELSE InsertAliases_IfAbsent(
            IF RequestKey(aliases[k], encoding) \in DOMAIN st.responses THEN st
            ELSE InsertResponse(st, aliases[k], encoding, response),
            aliases, k + 1, encoding, response)

RECURSIVE InsertAliases(_, _, _, _, _)
InsertAliases(st, aliases, k, encoding, response) ==
    IF k > Len(aliases) THEN st
    ELSE InsertAliases(InsertResponse(st, aliases[k], encoding, response),
                       aliases, k + 1, encoding, response)

(* certify_asset: the asset under its own url, then (File rules) as the    *)
(* fallback of its scopes and under its aliases                            *)
CertifyAsset(st, url, content, encoding, cfg) ==
    LET response == BuildResponse(content, encoding, cfg, 200)
        own == InsertResponse(st, url, encoding, response)
    IN  IF cfg = 0 THEN own
        ELSE InsertAliases(
                InsertFallbacks(own, asset_configs[cfg].fallback_for, 1, content, encoding, cfg),
                asset_configs[cfg].aliased_by, 1, encoding, response)

(* the pre-encoded variants of an asset that are in the asset list *)
RECURSIVE CertifyEncoded(_, _, _, _, _)
CertifyEncoded(st, assets, asset, cfg, k) ==
    IF cfg = 0 \/ k > Len(asset_configs[cfg].encodings) THEN st
    ELSE LET enc == asset_configs[cfg].encodings[k]
             name == EncodedPath(asset.path, enc[2])
             found == {j \in 1..Len(assets) : assets[j].path = name}
             next == IF found = {} THEN st
                     ELSE CertifyAsset(st, AssetUrl(asset.path),
                                       assets[CHOOSE j \in found : TRUE].content, enc[1], cfg)
         IN  CertifyEncoded(next, assets, asset, cfg, k + 1)

RECURSIVE CertifyFrom(_, _, _)
CertifyFrom(st, assets, i) ==
    IF i > Len(assets) THEN st
    ELSE LET asset == assets[i]
             cfg == ConfigFor(asset.path)
         IN  CertifyFrom(
                CertifyAsset(CertifyEncoded(st, assets, asset, cfg, 1),
                             AssetUrl(asset.path), asset.content, "identity", cfg),
                assets, i + 1)

(* st = [tree, responses, fallback_responses]: the router and the tree it shares *)
certify_assets(st, assets) == CertifyFrom(st, assets, 1)

(* AssetRouter::root_hash: the root hash of the labelled tree, a function  *)
(* of the set of entries in it                                             *)
root_hash(tree) == <<tree>>

---------------------------------------------------------------------------
(* Requests and AssetRouter::serve_asset, called at asset.rs:22 *)

RequestPaths ==
    {Root, <<"index.html">>, <<"404.html">>, <<"app.js">>, <<"style.css">>,
     <<"favicon.ico">>, <<"index.hbs">>, <<"missing">>, <<"docs", "missing">>}

(* url_ok: the url parses (HttpRequest::get_path succeeds); accept: the    *)
(* encodings of Accept-Encoding; replicated: the query method is run as an *)
(* update call, where no data certificate exists                           *)
AcceptSets == {{}, {"br"}, {"gzip"}, {"br", "gzip"}}

Requests ==
    [url_ok : BOOLEAN, path : RequestPaths, accept : AcceptSets, replicated : BOOLEAN]

(* a well-formed query for a path *)
Get(path, accept) ==
    [url_ok |-> TRUE, path |-> path, accept |-> accept, replicated |-> FALSE]

Trapped == [ok |-> FALSE]

Returned(response) == [ok |-> TRUE, response |-> response]

(* data_certificate(): the system's certificate over the certified data,   *)
(* None outside a non-replicated query                                     *)
data_certificate(req, cdata) ==
    IF req.replicated THEN [some |-> FALSE]
    ELSE [some |-> TRUE, certified_data |-> cdata]

(* HttpCertificationTree::witness: the tree pruned to one entry; it        *)
(* reconstructs to the root hash of the tree it was cut from               *)
Witness(tree, entry) == [reveals |-> entry, root |-> root_hash(tree)]

(* Accept-Encoding ignored: only the unencoded response is tried *)
PreferredEncodings_None(req) == <<>>

(* the encodings tried, in order, before the unencoded response *)
PreferredEncodings(req) ==
    SelectSeq(<<"br", "gzip">>, LAMBDA e : e \in req.accept)

RECURSIVE FirstKey(_, _, _, _)
FirstKey(map, url, encs, k) ==
    IF k > Len(encs)
    THEN IF RequestKey(url, "identity") \in DOMAIN map
         THEN <<RequestKey(url, "identity")>> ELSE <<>>
    ELSE IF RequestKey(url, encs[k]) \in DOMAIN map
         THEN <<RequestKey(url, encs[k])>>
         ELSE FirstKey(map, url, encs, k + 1)

(* fallbacks looked up for the requested path only, never for "/" *)
ScopesOf_ExactOnly(url) == <<url>>

(* the fallback scopes covering a path, most specific first: every path    *)
(* lies under "/"                                                          *)
ScopesOf(url) == [k \in 1..(Len(url) + 1) |-> SubSeq(url, 1, Len(url) + 1 - k)]

RECURSIVE FirstFallback(_, _, _, _)
FirstFallback(map, scopes, encs, k) ==
    IF k > Len(scopes) THEN <<>>
    ELSE LET hit == FirstKey(map, scopes[k], encs, 1)
         IN  IF hit # <<>> THEN hit ELSE FirstFallback(map, scopes, encs, k + 1)

(* the certified response the router picks for a request: <<"none">>,      *)
(* or the picked [response, tree_entry]                                    *)
Lookup(router, req) ==
    LET encs == PreferredEncodings(req)
        exact == FirstKey(router.responses, req.path, encs, 1)
        fb == FirstFallback(router.fallback_responses, ScopesOf(req.path), encs, 1)
    IN  IF exact # <<>> THEN <<router.responses[exact[1]]>>
        ELSE IF fb # <<>> THEN <<router.fallback_responses[fb[1]]>>
        ELSE <<>>

(* AssetRouter::serve_asset: Err, or the certified response with the       *)
(* IC-Certificate header (certificate, witness, expression path) added     *)
router_serve_asset(router, tree, certificate, req) ==
    LET hit == Lookup(router, req)
    IN  IF ~req.url_ok \/ hit = <<>> \/ ~(hit[1].tree_entry \in tree)
        THEN [is_ok |-> FALSE]
        ELSE [is_ok |-> TRUE,
              response |->
                [status_code |-> hit[1].response.status_code,
                 headers |-> hit[1].response.headers,
                 body |-> hit[1].response.body,
                 ic_certificate |->
                    [certificate |-> certificate,
                     tree |-> Witness(tree, hit[1].tree_entry),
                     expr_path |-> <<hit[1].tree_entry.kind, hit[1].tree_entry.path>>]]]

(* serve_asset answering with an uncertified empty 404 where it traps *)
serve_asset_Unverified(router, tree, cdata, req) ==
    LET cert == data_certificate(req, cdata)
        served == router_serve_asset(router, tree, cert, req)
    IN  IF served.is_ok /\ cert.some THEN Returned(served.response)
        ELSE Returned([status_code |-> 404, headers |-> <<>>, body |-> Contents("(none)"),
                       ic_certificate |-> [certificate |-> cert]])

(* serve_asset going on without a data certificate (unwrap_or_default) *)
serve_asset_NoCertificate(router, tree, cdata, req) ==
    LET cert == data_certificate(req, cdata)
        served == router_serve_asset(router, tree, cert, req)
    IN  IF served.is_ok THEN Returned(served.response) ELSE Trapped

(* asset.rs serve_asset: expect() on the data certificate, trap on Err *)
serve_asset(router, tree, cdata, req) ==
    LET cert == data_certificate(req, cdata)
        served == router_serve_asset(router, tree, cert, req)
    IN  IF ~cert.some THEN Trapped
        ELSE IF served.is_ok THEN Returned(served.response)
        ELSE Trapped

(* lib.rs http_request: expect() on the parsed path, then serve_asset *)
http_request_on(router, tree, cdata, req) ==
    IF ~req.url_ok THEN Trapped ELSE serve_asset(router, tree, cdata, req)

http_request(req) == http_request_on(ASSET_ROUTER, HTTP_TREE, certified_data, req)

---------------------------------------------------------------------------
(* The state after install: init() has run certify_on_timer(), which arms  *)
(* the interval timer and nothing else.                                    *)

EmptyRouter == [responses |-> <<>>, fallback_responses |-> <<>>]

(* certify_on_timer: set_timer_interval adds one interval timer, first     *)
(* due an interval from now                                                *)
certify_on_timer(armed) == Append(armed, UPDATE_INTERVAL_SECS)

Init ==
    /\ HTTP_TREE = {}
    /\ ASSET_ROUTER = EmptyRouter
    /\ certified_data = <<>>
    /\ LAST_CYCLES_FOR_TIMER = 0
    /\ timers = certify_on_timer(<<>>)
    /\ tasks = <<>>
    /\ time = 0
    /\ source = 0
    /\ outcome = "none"
    /\ scheduler = "Uninitialized"

(* post_upgrade: the heap is a fresh one (empty tree and router, zero      *)
(* counter, no timers), certified data is kept by the system.  A canister  *)
(* is stopped for an upgrade, so no call is outstanding.                   *)
Upgrade ==
    /\ tasks = <<>>
    /\ HTTP_TREE' = {}
    /\ ASSET_ROUTER' = EmptyRouter
    /\ LAST_CYCLES_FOR_TIMER' = 0
    /\ timers' = certify_on_timer(<<>>)
    /\ outcome' = "none"
    /\ scheduler' = "Uninitialized"
    /\ UNCHANGED <<certified_data, tasks, time, source>>

Remove(seq, i) == [k \in 1..(Len(seq) - 1) |-> IF k < i THEN seq[k] ELSE seq[k + 1]]

(* A timer that is due fires and is scheduled an interval from now.  Its   *)
(* callback spawns the pass, which reads the instruction counter and runs  *)
(* certify_all_assets up to the canister_status call.  Nothing reads that  *)
(* first reading before the pass has ended, so its value is drawn where it *)
(* is used, in PassCompletes.                                              *)
Tick(k) ==
    /\ timers[k] = 0
    /\ Len(tasks) < MaxInFlight
    /\ timers' = [timers EXCEPT ![k] = UPDATE_INTERVAL_SECS]
    /\ tasks' = Append(tasks, [pc |-> "canister_status", response |-> 0])
    /\ UNCHANGED <<HTTP_TREE, ASSET_ROUTER, certified_data, LAST_CYCLES_FOR_TIMER,
                   time, source, outcome, scheduler>>

(* set_certified_data called before certify_assets: the root published is *)
(* the one of the tree as it was before the pass                           *)
publish_before_certify(tree, router, rendered) ==
    LET st == certify_assets([tree |-> tree, responses |-> router.responses,
                              fallback_responses |-> router.fallback_responses],
                             Assets(rendered))
    IN  [tree |-> st.tree,
         router |-> [responses |-> st.responses,
                     fallback_responses |-> st.fallback_responses],
         certified_data |-> root_hash(tree)]

(* asset.rs:101-106, the end of certify_all_assets: certify_assets on the  *)
(* router and the tree it shares, then set_certified_data(root_hash)       *)
certify_and_publish(tree, router, rendered) ==
    LET st == certify_assets([tree |-> tree, responses |-> router.responses,
                              fallback_responses |-> router.fallback_responses],
                             Assets(rendered))
    IN  [tree |-> st.tree,
         router |-> [responses |-> st.responses,
                     fallback_responses |-> st.fallback_responses],
         certified_data |-> root_hash(st.tree)]

(* a failed fetch that is swallowed: the pass goes on with empty metadata   *)
(* and publishes what it renders from it                                   *)
PassTraps_Publishes(i) ==
    LET done == certify_and_publish(HTTP_TREE, ASSET_ROUTER,
                                    Render("index.hbs", 0, 0, time, MaxWork + 1))
    IN  /\ tasks' = Remove(tasks, i)
        /\ outcome' = "trapped"
        /\ HTTP_TREE' = done.tree
        /\ ASSET_ROUTER' = done.router
        /\ certified_data' = done.certified_data
        /\ UNCHANGED <<LAST_CYCLES_FOR_TIMER, timers, time, source, scheduler>>

(* a trap that takes the interval timer down with it *)
PassTraps_Disarms(i) ==
    /\ tasks' = Remove(tasks, i)
    /\ outcome' = "trapped"
    /\ timers' = <<>>
    /\ UNCHANGED <<HTTP_TREE, ASSET_ROUTER, certified_data, LAST_CYCLES_FOR_TIMER,
                   time, source, scheduler>>

(* A callback that traps: what the message changed is rolled back and the  *)
(* future is never resumed.                                                *)
PassTraps(i) ==
    /\ tasks' = Remove(tasks, i)
    /\ outcome' = "trapped"
    /\ UNCHANGED <<HTTP_TREE, ASSET_ROUTER, certified_data, LAST_CYCLES_FOR_TIMER,
                   timers, time, source, scheduler>>

(* canister_status replies Ok: keep the response, call canister_info *)
StatusOk(i) ==
    /\ tasks[i].pc = "canister_status"
    /\ tasks' = [tasks EXCEPT ![i] = [@ EXCEPT !.pc = "canister_info", !.response = source]]
    /\ UNCHANGED <<HTTP_TREE, ASSET_ROUTER, certified_data, LAST_CYCLES_FOR_TIMER,
                   timers, time, source, outcome, scheduler>>

(* canister_status replies Err: unwrap() panics *)
StatusErr(i) ==
    /\ tasks[i].pc = "canister_status"
    /\ PassTraps(i)

(* canister_info replies Err: unwrap() panics *)
InfoErr(i) ==
    /\ tasks[i].pc = "canister_info"
    /\ PassTraps(i)

(* canister_info replies Ok, and the conversion of the status to u64       *)
(* fields, the template registration or the rendering panics               *)
RenderTraps(i) ==
    /\ tasks[i].pc = "canister_info"
    /\ PassTraps(i)

(* a pass that renders with the history it had when canister_status        *)
(* replied, and publishes that after the second await                      *)
PassCompletes_StaleRender(i) ==
    /\ tasks[i].pc = "canister_info"
    /\ tasks' = Remove(tasks, i)
    /\ outcome' = "certified"
    /\ scheduler' = "Certified"
    /\ UNCHANGED <<timers, time, source>>
    /\ \E now \in 1..MaxNow, work \in 1..MaxWork :
         LET rendered == Render("index.hbs", tasks[i].response, tasks[i].response, time,
                                LAST_CYCLES_FOR_TIMER)
             done == certify_and_publish(HTTP_TREE, ASSET_ROUTER, rendered)
         IN  /\ LAST_CYCLES_FOR_TIMER' = performance_counter(now, work) - now
             /\ certified_data' = done.certified_data
             /\ HTTP_TREE' = done.tree
             /\ ASSET_ROUTER' = done.router

(* canister_info replies Ok and the rest of the pass runs in the same      *)
(* message: render, collect the remaining files, certify, publish, record  *)
(* the instructions used.                                                  *)
PassCompletes(i) ==
    /\ tasks[i].pc = "canister_info"
    /\ tasks' = Remove(tasks, i)
    /\ outcome' = "certified"
    /\ scheduler' = "Certified"
    /\ UNCHANGED <<timers, time, source>>
    /\ \E now \in 1..MaxNow, work \in 1..MaxWork :
         LET rendered == Render("index.hbs", tasks[i].response, source, time,
                                LAST_CYCLES_FOR_TIMER)
             done == certify_and_publish(HTTP_TREE, ASSET_ROUTER, rendered)
             elapsed == performance_counter(now, work)
         IN  /\ LAST_CYCLES_FOR_TIMER' = elapsed - now
             /\ certified_data' = done.certified_data
             /\ HTTP_TREE' = done.tree
             /\ ASSET_ROUTER' = done.router

(* a query or update call of http_request: it changes nothing *)
HttpRequestReturns ==
    /\ (\E req \in Requests : http_request(req).ok) = TRUE
    /\ UNCHANGED vars

HttpRequestTraps ==
    /\ (\E req \in Requests : ~http_request(req).ok) = TRUE
    /\ UNCHANGED vars

(* One interval of time passes: the timers come due.  The clock value     *)
(* that is read stops at LastTime.                                         *)
TimePasses ==
    /\ time' = IF time < LastTime THEN time + UPDATE_INTERVAL_SECS ELSE time
    /\ timers' = [k \in 1..Len(timers) |->
                    IF timers[k] >= UPDATE_INTERVAL_SECS
                    THEN timers[k] - UPDATE_INTERVAL_SECS ELSE 0]
    /\ UNCHANGED <<HTTP_TREE, ASSET_ROUTER, certified_data, LAST_CYCLES_FOR_TIMER,
                   tasks, source, outcome, scheduler>>

(* the canister's status and history, as the management canister reports   *)
(* them, change                                                            *)

SourceAdvances ==
    /\ source < MaxSource
    /\ source' = source + 1
    /\ UNCHANGED <<HTTP_TREE, ASSET_ROUTER, certified_data, LAST_CYCLES_FOR_TIMER,
                   timers, tasks, time, outcome, scheduler>>

Next ==
    \/ \E k \in 1..Len(timers) : Tick(k)
    \/ \E i \in 1..Len(tasks) : StatusOk(i)
    \/ \E i \in 1..Len(tasks) : StatusErr(i)
    \/ \E i \in 1..Len(tasks) : InfoErr(i)
    \/ \E i \in 1..Len(tasks) : RenderTraps(i)
    \/ \E i \in 1..Len(tasks) : PassCompletes(i)
    \/ HttpRequestReturns
    \/ HttpRequestTraps
    \/ Upgrade
    \/ TimePasses
    \/ SourceAdvances

Spec == Init /\ [][Next]_vars

(* a pass has both metadata answers and only the rendering and the        *)
(* certification are left: PassCompletes is enabled exactly then           *)
ReadyToComplete == \E i \in 1..Len(tasks) : tasks[i].pc = "canister_info"

(* Time passes, a timer that comes due again and again fires (upgrades     *)
(* do not reset it forever), and the metadata source and the rendering     *)
(* succeed again and again.  The last conjunct is strong fairness of       *)
(* PassCompletes with its enabling condition written out.                  *)
FairSpec ==
    /\ Spec
    /\ WF_vars(TimePasses)
    /\ SF_vars(\E k \in 1..Len(timers) : Tick(k))
    /\ SF_vars(\E i \in 1..Len(tasks) : StatusOk(i))
    /\ []<>ReadyToComplete
          => []<><<\E i \in 1..Len(tasks) : PassCompletes(i)>>_vars

---------------------------------------------------------------------------
(* Properties *)

Servable(req) == http_request(req).ok

(* the answer to a request in the state a step leads to *)
http_request_next(req) == http_request_on(ASSET_ROUTER', HTTP_TREE', certified_data', req)

(* a step in which a pass ends in a trap *)
PassFailed == Len(tasks') < Len(tasks) /\ outcome' = "trapped"

(* a step in which a pass ends by publishing *)
PassPublished == Len(tasks') < Len(tasks) /\ outcome' = "certified"

(* C1: whenever a request can arrive after init / post_upgrade has        *)
(* returned, a certification pass has already completed since then.        *)
C1_PassBeforeAnyRequest ==
    (ENABLED HttpRequestReturns \/ ENABLED HttpRequestTraps)
        => scheduler = "Certified"

(* C2: while no pass has completed since init / post_upgrade, every        *)
(* request traps: none returns a response.                                 *)
C2_NoResponseWhileUninitialized ==
    scheduler = "Uninitialized" => \A req \in Requests : ~Servable(req)

(* after an upgrade: certified data of the previous instance is still      *)
(* there, a pass is under way, and a request for "/" traps                 *)
C2_Witness ==
    /\ scheduler = "Uninitialized"
    /\ certified_data # <<>>
    /\ Len(tasks) > 0
    /\ \E req \in Requests :
          req.url_ok /\ ~req.replicated /\ req.path = Root /\ ~Servable(req)

(* C3: whenever some request is answered, the certified data is the root   *)
(* hash of the tree the router serves from, every response the router      *)
(* holds has its entry in that tree, and the answer's certificate and      *)
(* witness are for exactly that root.                                      *)
C3_DigestMatchesTree ==
    (\E req \in Requests : Servable(req)) =>
        /\ certified_data = root_hash(HTTP_TREE)
        /\ \A k \in DOMAIN ASSET_ROUTER.responses :
              ASSET_ROUTER.responses[k].tree_entry \in HTTP_TREE
        /\ \A k \in DOMAIN ASSET_ROUTER.fallback_responses :
              ASSET_ROUTER.fallback_responses[k].tree_entry \in HTTP_TREE
        /\ \A req \in Requests : Servable(req) =>
              LET c == http_request(req).response.ic_certificate
              IN  /\ c.certificate.certified_data = certified_data
                  /\ c.tree.root = certified_data

(* a second pass has published while a third is suspended, and requests    *)
(* are being answered                                                      *)
C3_Witness ==
    /\ scheduler = "Certified"
    /\ Cardinality(HTTP_TREE) > Cardinality(DOMAIN ASSET_ROUTER.responses) + 1
    /\ Len(tasks) > 0
    /\ \E req \in Requests : Servable(req)

(* C4: a pass that fails leaves the certified data, the tree and the       *)
(* router as they were, and every request gets the answer it got before.   *)
C4_FailedPassChangesNothing ==
    [][PassFailed =>
          /\ UNCHANGED <<HTTP_TREE, ASSET_ROUTER, certified_data>>
          /\ \A req \in Requests : http_request_next(req) = http_request(req)]_vars

(* a pass has failed after an earlier one had published *)
C4_Witness ==
    /\ outcome = "trapped"
    /\ scheduler = "Certified"
    /\ \E req \in Requests : Servable(req)

(* the tree entries of the responses the router currently serves *)
CurrentEntries ==
    {ASSET_ROUTER.responses[k].tree_entry : k \in DOMAIN ASSET_ROUTER.responses}
    \cup {ASSET_ROUTER.fallback_responses[k].tree_entry :
             k \in DOMAIN ASSET_ROUTER.fallback_responses}

(* C5: after a completed pass the tree holds one entry per certified key   *)
(* and nothing of an earlier generation: its entries are exactly those of  *)
(* the responses now served.                                               *)
C5_OneGenerationInTree ==
    scheduler = "Certified" =>
        /\ HTTP_TREE = CurrentEntries
        /\ Cardinality(HTTP_TREE) =
              Cardinality(DOMAIN ASSET_ROUTER.responses)
              + Cardinality(DOMAIN ASSET_ROUTER.fallback_responses)

(* C6: at most one certification pass is in flight at any time. *)
C6_AtMostOnePassInFlight == Len(tasks) <= 1

(* C7: the timer stays armed whatever happens to a pass, and after every   *)
(* failed pass a pass eventually completes successfully.                   *)
C7_FailedPassIsRetried ==
    /\ [](timers # <<>>)
    /\ (outcome = "trapped") ~> (outcome = "certified")

(* a pass has failed, the timer is armed and the next pass is under way *)
C7_Witness ==
    /\ outcome = "trapped"
    /\ timers # <<>>
    /\ Len(tasks) > 0

IndexKey == RequestKey(<<"index.html">>, "identity")

(* the body currently certified for index.html *)
IndexBody == ASSET_ROUTER.responses[IndexKey].response.body

(* C8: the published digest is a function of the content now served: it    *)
(* is the digest that certifying this very content into an empty tree      *)
(* publishes, whatever passes came before.                                 *)
C8_DigestOfCurrentContent ==
    scheduler = "Certified" =>
        certified_data = certify_and_publish({}, EmptyRouter, IndexBody).certified_data

(* what pass i renders when it completes in the current state *)
RenderedBy(i) ==
    Render("index.hbs", tasks[i].response, source, time, LAST_CYCLES_FOR_TIMER)

IndexRequests == {Get(<<"index.html">>, a) : a \in AcceptSets}

OtherRequests ==
    {Get(path, a) : path \in RequestPaths \ {Root, <<"index.html">>}, a \in AcceptSets}

(* index.html is served with the rendering of the pass that just completed *)
FreshBodyServed(i) ==
    \A req \in IndexRequests :
        /\ http_request_next(req).ok
        /\ http_request_next(req).response.body = RenderedBy(i)

(* every other answer keeps status, headers and body, and its witness      *)
(* is for the newly published root                                         *)
OthersStillValid ==
    \A req \in OtherRequests :
        /\ http_request_next(req).ok
        /\ http_request_next(req).response.body = http_request(req).response.body
        /\ http_request_next(req).response.status_code = http_request(req).response.status_code
        /\ http_request_next(req).response.headers = http_request(req).response.headers
        /\ http_request_next(req).response.ic_certificate.tree.root = certified_data'

(* C9: when a pass completes whose rendering differs from the index.html   *)
(* certified before, index.html is served with the new rendering, the      *)
(* published digest changes, and all other assets are served as before     *)
(* with witnesses valid for the new digest.  (Passes that complete while   *)
(* the clock reads less than LastTime: all time stamps are exact.)         *)
C9_FreshAfterPass ==
    [][\A i \in 1..Len(tasks) :
          (/\ PassCompletes(i)
           /\ scheduler = "Certified"
           /\ time < LastTime
           /\ RenderedBy(i) # IndexBody)
             => /\ FreshBodyServed(i)
                /\ certified_data' # certified_data
                /\ OthersStillValid]_vars

(* the alias and the canonical path, asked for with the same Accept-Encoding *)
AliasPairs == {<<Get(Root, a), Get(<<"index.html">>, a)>> : a \in AcceptSets}

(* all headers of an answer: those certified with the asset and the        *)
(* IC-Certificate header added when it is served                           *)
AllHeaders(response) ==
    [certified |-> response.headers, ic_certificate |-> response.ic_certificate]

(* C10 as stated: after a completed pass "/" and "/index.html" are served  *)
(* with the same body, the same status and the same headers.               *)
C10_AliasSameHeaders ==
    scheduler = "Certified" =>
        \A pair \in AliasPairs :
            LET a == http_request(pair[1])
                c == http_request(pair[2])
            IN  /\ a.ok /\ c.ok
                /\ a.response.body = c.response.body
                /\ a.response.status_code = c.response.status_code
                /\ AllHeaders(a.response) = AllHeaders(c.response)

(* C10, amended: after a completed pass "/" and "/index.html" are served   *)
(* with the same body, the same status and the same headers except for     *)
(* the IC-Certificate header, which carries the same certificate and a     *)
(* witness for the same root but names the path that was requested.        *)
C10_AliasEquivalence ==
    scheduler = "Certified" =>
        \A pair \in AliasPairs :
            LET a == http_request(pair[1])
                c == http_request(pair[2])
            IN  /\ a.ok /\ c.ok
                /\ a.response.body = c.response.body
                /\ a.response.status_code = c.response.status_code
                /\ a.response.headers = c.response.headers
                /\ a.response.ic_certificate.certificate = c.response.ic_certificate.certificate
                /\ a.response.ic_certificate.tree.root = c.response.ic_certificate.tree.root
                /\ a.response.ic_certificate.expr_path = <<"exact", Root>>
                /\ c.response.ic_certificate.expr_path = <<"exact", <<"index.html">> >>

(* index.html has been rendered anew by a later pass, and "/" is served *)
C10_Witness ==
    /\ scheduler = "Certified"
    /\ Cardinality(HTTP_TREE) > Cardinality(CurrentEntries)
    /\ \E pair \in AliasPairs :
          /\ http_request(pair[1]).ok
          /\ http_request(pair[1]).response.body = IndexBody

(* the paths certified under their own name, and the declared aliases *)
CertifiedUrls ==
    {AssetUrl(AssetOf(ASSETS_DIR[i], Contents("index.hbs")).path) : i \in 1..Len(ASSETS_DIR)}
    \cup UNION {{asset_configs[c].aliased_by[k] : k \in 1..Len(asset_configs[c].aliased_by)} :
                   c \in 1..Len(asset_configs)}

(* well-formed queries for the paths that are neither *)
UncoveredRequests ==
    {Get(path, a) : path \in RequestPaths \ CertifiedUrls, a \in AcceptSets}

(* C11: after a completed pass, a query for a path that is neither a       *)
(* certified asset path nor a declared alias is answered, not trapped,     *)
(* with the bytes of 404.html and status 404, certified as the fallback    *)
(* of scope "/" with a witness for the published digest.                   *)
C11_NoUncertifiableGaps ==
    scheduler = "Certified" =>
        \A req \in UncoveredRequests :
            LET r == http_request(req)
            IN  /\ r.ok
                /\ r.response.status_code = 404
                /\ r.response.body = Contents("404.html")
                /\ r.response.ic_certificate.expr_path = <<"wildcard", Root>>
                /\ r.response.ic_certificate.tree.root = certified_data

(* index.html has been certified more than once, and a path two segments   *)
(* deep that nothing was certified for gets the not-found page             *)
C11_Witness ==
    /\ scheduler = "Certified"
    /\ Cardinality(HTTP_TREE) > Cardinality(CurrentEntries)
    /\ Get(<<"docs", "missing">>, {"br", "gzip"}) \in UncoveredRequests
    /\ http_request(Get(<<"docs", "missing">>, {"br", "gzip"})).ok
    /\ http_request(Get(<<"docs", "missing">>, {"br", "gzip"})).response.status_code = 404

(* the response has every one of the eight security headers *)
HasSecurityHeaders(response) ==
    \A k \in 1..Len(SecurityHeaders) :
        \E j \in 1..Len(response.headers) : response.headers[j] = SecurityHeaders[k]

(* C12: every response http_request returns carries the eight security     *)
(* headers, whichever file or fallback it is.                              *)
C12_SecurityHeadersAlways ==
    \A req \in Requests :
        Servable(req) => HasSecurityHeaders(http_request(req).response)

(* C13: a request for which there is no data certificate, or for which the *)
(* router returns Err, traps; and every response that is returned is the   *)
(* router's, with the current data certificate and a witness of an entry   *)
(* of the tree for the certified digest.                                   *)
C13_NoUnprovableResponse ==
    \A req \in Requests :
        LET cert == data_certificate(req, certified_data)
            served == router_serve_asset(ASSET_ROUTER, HTTP_TREE, cert, req)
            r == http_request(req)
        IN  /\ (~cert.some \/ ~served.is_ok) => ~r.ok
            /\ r.ok =>
                  /\ r.response = served.response
                  /\ r.response.ic_certificate.certificate.some
                  /\ r.response.ic_certificate.certificate.certified_data = certified_data
                  /\ r.response.ic_certificate.tree.reveals \in HTTP_TREE
                  /\ r.response.ic_certificate.tree.root = certified_data

(* after a completed pass a request is answered as a query and traps when  *)
(* it is run as an update call, where there is no data certificate         *)
C13_Witness ==
    /\ scheduler = "Certified"
    /\ \E req \in Requests :
          /\ req.url_ok /\ req.replicated /\ ~Servable(req)
          /\ Servable([req EXCEPT !.replicated = FALSE])

(* the not-found page is certified as the fallback of scope "/" *)
FallbackCovers == RequestKey(Root, "identity") \in DOMAIN ASSET_ROUTER.fallback_responses

(* C14: a query whose path does not parse is answered with the not-found   *)
(* page when the "/" fallback is certified, and fails only when it is not. *)
C14_MalformedGetsFallback ==
    \A req \in Requests :
        (~req.url_ok /\ ~req.replicated) =>
            IF FallbackCovers
            THEN /\ http_request(req).ok
                 /\ http_request(req).response.status_code = 404
                 /\ http_request(req).response.body = Contents("404.html")
            ELSE ~http_request(req).ok

(* the file a path resolves to: the alias to index.html, a certified path  *)
(* to its file, any other path to the not-found page                       *)
ResolvedAsset(url) ==
    IF url = Root THEN "index.html"
    ELSE IF url \in CertifiedUrls THEN url[1]
    ELSE "404.html"

(* the encodings the corpus has a variant of the file in *)
AvailableEncodings(file) ==
    {"identity"} \cup
    {encodings[k][1] : k \in {j \in 1..Len(encodings) :
        /\ ConfigFor(file) # 0
        /\ \E i \in 1..Len(ASSETS_DIR) : ASSETS_DIR[i] = EncodedPath(file, encodings[j][2])}}

(* the first of Brotli, Gzip, Identity that is accepted and available *)
Negotiated(accept, available) ==
    IF "br" \in accept \cap available THEN "br"
    ELSE IF "gzip" \in accept \cap available THEN "gzip"
    ELSE "identity"

(* the encoding a response declares *)
ServedEncoding(response) ==
    LET hits == {j \in 1..Len(response.headers) : response.headers[j][1] = "content-encoding"}
    IN  IF hits = {} THEN "identity" ELSE response.headers[CHOOSE j \in hits : TRUE][2]

(* the bytes of a file's variant in an encoding *)
VariantBytes(file, encoding) ==
    IF encoding = "identity"
    THEN IF file = "index.html" THEN IndexBody ELSE Contents(file)
    ELSE LET k == CHOOSE j \in 1..Len(encodings) : encodings[j][1] = encoding
         IN  Contents(EncodedPath(file, encodings[k][2]))

DynamicUrls == {Root, <<"index.html">>}

(* embedded bytes with nothing filled in, of a file other than the template *)
EmbeddedBytes(content) == content.fill = <<>> /\ content.file # "index.hbs"

(* what is certified now, in the router and in the tree: every path other  *)
(* than index.html and "/" with the embedded bytes of its file, nothing    *)
(* under the template's own path, index.html and "/" never with the raw    *)
(* template                                                                *)
StaticBytesCertified ==
    /\ \A k \in DOMAIN ASSET_ROUTER.responses :
          /\ k.path # <<"index.hbs">>
          /\ k.path \notin DynamicUrls =>
                ASSET_ROUTER.responses[k].response.body = VariantBytes(k.path[1], k.encoding)
          /\ k.path \in DynamicUrls =>
                ASSET_ROUTER.responses[k].response.body # Contents("index.hbs")
    /\ \A k \in DOMAIN ASSET_ROUTER.fallback_responses :
          ASSET_ROUTER.fallback_responses[k].response.body = VariantBytes("404.html", k.encoding)
    /\ \A e \in HTTP_TREE :
          /\ e.path # <<"index.hbs">>
          /\ e.path \notin DynamicUrls => EmbeddedBytes(e.response_hash.sha256_of.body)
          /\ e.path \in DynamicUrls => e.response_hash.sha256_of.body # Contents("index.hbs")

(* a completing pass certifies its own rendering for index.html and "/"    *)
(* and leaves every other certified response as it was                     *)
OnlyDynamicChanges ==
    \A i \in 1..Len(tasks) : PassCompletes(i) =>
        /\ \A k \in DOMAIN ASSET_ROUTER'.responses :
              IF k.path \in DynamicUrls
              THEN ASSET_ROUTER'.responses[k].response.body = RenderedBy(i)
              ELSE scheduler = "Certified" =>
                     /\ k \in DOMAIN ASSET_ROUTER.responses
                     /\ ASSET_ROUTER'.responses[k] = ASSET_ROUTER.responses[k]
        /\ scheduler = "Certified" =>
              /\ DOMAIN ASSET_ROUTER'.responses = DOMAIN ASSET_ROUTER.responses
              /\ ASSET_ROUTER'.fallback_responses = ASSET_ROUTER.fallback_responses

(* C16: across the passes only index.html and its alias "/" change: every  *)
(* other path is certified with the embedded bytes of its file in every    *)
(* pass, index.hbs is never certified under its own path, and index.html   *)
(* is certified with the rendering of the pass that certifies it, never    *)
(* with the raw template.                                                  *)
C16_OnlyDynamicAssetChanges ==
    /\ []StaticBytesCertified
    /\ [][OnlyDynamicChanges]_vars

(* index.html has been certified with two different renderings, and the    *)
(* one served is filled in                                                 *)
C16_Witness ==
    /\ scheduler = "Certified"
    /\ Cardinality({e \in HTTP_TREE : e.path = <<"index.html">>}) > 1
    /\ IndexBody.fill # <<>>
    /\ RequestKey(<<"app.js">>, "gzip") \in DOMAIN ASSET_ROUTER.responses

(* the parts of a rendering: the canister_status answer, the canister_info *)
(* history, the time stamp                                                 *)
StatusIn(body) == body.fill[1]

HistoryIn(body) == body.fill[2]

TimeIn(body) == body.fill[3][2]

CostIn(body) == body.fill[4]

(* a step that changes the recorded cost is a pass that completes, or an    *)
(* upgrade, which starts from a fresh heap                                 *)
CostWrittenOnSuccess ==
    /\ PassFailed => UNCHANGED LAST_CYCLES_FOR_TIMER
    /\ LAST_CYCLES_FOR_TIMER' # LAST_CYCLES_FOR_TIMER =>
          \/ PassPublished
          \/ LAST_CYCLES_FOR_TIMER' = 0 /\ scheduler' = "Uninitialized"

(* a completing pass shows the cost recorded before it rendered and         *)
(* records its own, which is the difference of two readings of which the   *)
(* second is the larger                                                    *)
CostRenderedIsLastRecorded ==
    \A i \in 1..Len(tasks) : PassCompletes(i) =>
        /\ CostIn(ASSET_ROUTER'.responses[IndexKey].response.body) = LAST_CYCLES_FOR_TIMER
        /\ LAST_CYCLES_FOR_TIMER' \in 1..MaxWork

(* C18: LAST_CYCLES_FOR_TIMER is 0 until a pass has completed, changes     *)
(* only when a pass completes, is never the result of an underflowing      *)
(* subtraction, and the cost a pass renders is the one recorded by the     *)
(* pass that completed last before it.                                     *)
C18_LastCyclesRecorded ==
    /\ [](scheduler = "Uninitialized" => LAST_CYCLES_FOR_TIMER = 0)
    /\ [](LAST_CYCLES_FOR_TIMER \in 0..MaxWork)
    /\ [][CostWrittenOnSuccess]_vars
    /\ [][CostRenderedIsLastRecorded]_vars

(* a pass has rendered the cost recorded by the pass before it, and a      *)
(* later pass has failed                                                   *)
C18_Witness ==
    /\ scheduler = "Certified"
    /\ outcome = "trapped"
    /\ LAST_CYCLES_FOR_TIMER > 0
    /\ CostIn(IndexBody) > 0

====
